---- MODULE Spec2Model ----
(***************************************************************************)
(* Attendance system: the POST /api/attendance/save handler (one session   *)
(* row plus one record row per submitted entry, in one transaction on a    *)
(* pooled connection), the GET /api/attendance/analytics handler, the      *)
(* POST /api/students/enroll handler and the POST /api/auth/login handler, *)
(* over the PostgreSQL schema of the repository.                           *)
(*                                                                         *)
(* Every `await` of a handler is a point where other requests run, so a    *)
(* handler is one action per awaited store operation.  The store is        *)
(* PostgreSQL at its default isolation (READ COMMITTED): a statement on a  *)
(* connection with an open transaction writes to that transaction only,    *)
(* other connections see the committed relations, a rejected statement     *)
(* aborts the transaction, and a lost connection makes the server discard  *)
(* the transaction (for COMMIT, the connection may also be lost after the  *)
(* server has committed).  The pool drops a lost connection on release.    *)
(* Dates are day numbers.                                                  *)
(*                                                                         *)
(* Spec          concurrent save calls on the seed store                   *)
(* SpecLive      Spec with every call's awaits eventually settling         *)
(* SpecAnalytics the analytics handler on drawn stores, the date advancing *)
(* SpecEnroll    concurrent enrollment calls on the seed store             *)
(* SpecSystem    the four handlers interleaved on the seed store           *)
(***************************************************************************)
EXTENDS Integers, Sequences, FiniteSets, TLC

\* ---------------------------------------------------------------- bounds
NumCalls == 2
PoolSize == 2
MaxRecords == 2
NumEnrolls == 2

Calls == 1..NumCalls
Conns == 1..PoolSize
Enrolls == 1..NumEnrolls

\* ------------------------------------------------------- request payloads
\* JSON values as the handler sees them after express.json().
Undefined == [t |-> "undefined"]
Obj == [t |-> "object"]
Str(s) == [t |-> "string", v |-> s]
Arr(s) == [t |-> "array", v |-> s]

\* Entries a client may submit: an enrolled student, an id that is not
\* enrolled, and a status outside present/partial/absent.
RecordKinds ==
  { [studentId |-> "STU001", status |-> "present", confidenceScore |-> 850],
    [studentId |-> "STU999", status |-> "present", confidenceScore |-> 850],
    [studentId |-> "STU002", status |-> "late", confidenceScore |-> 650] }

RecordSeqs == UNION { [1..n -> RecordKinds] : n \in 0..MaxRecords }

Bodies ==
  { [sessionData |-> Obj, attendanceRecords |-> Arr(s), subject |-> Str("CS"),
     section |-> Undefined] : s \in RecordSeqs }
  \cup
  { [sessionData |-> Obj, attendanceRecords |-> Undefined, subject |-> Str("CS"),
     section |-> Undefined],
    [sessionData |-> Undefined, attendanceRecords |-> Arr(<<>>), subject |-> Str("CS"),
     section |-> Undefined],
    [sessionData |-> Obj, attendanceRecords |-> Arr(<<>>), subject |-> Undefined,
     section |-> Undefined],
    [sessionData |-> Obj, attendanceRecords |-> Arr(<<>>), subject |-> Str(""),
     section |-> Undefined] }

Statuses == {"present", "partial", "absent"}

\* ------------------------------------------------------------------ state
VARIABLES
  users,       \* committed users rows
  students,    \* student_ids of the committed students relation (its primary key)
  studentRows, \* committed students rows
  sessions,    \* committed attendance_sessions rows
  records,     \* committed attendance_records rows
  seqSession,  \* last value of attendance_sessions.session_id's sequence
  seqRecord,   \* last value of attendance_records.record_id's sequence
  today,       \* current date, as a day number
  pc,          \* per call: position in the save handler
  body,        \* per call: req.body
  client,      \* per call: the pooled connection it holds, 0 for none
  sessionId,   \* per call: const sessionId, 0 before it is assigned
  idx,         \* per call: position of the for-of loop
  resp,        \* per call: the response sent
  nConnect,    \* per call: connections acquired
  nRelease,    \* per call: client.release() calls
  poolMax,     \* the pool's size (its max option)
  tx,          \* per connection: transaction state and uncommitted rows
  broken,      \* per connection: the connection was lost
  apc,         \* analytics handler: position
  trendsResult,      \* analytics handler: rows of the first query
  engagementResult,  \* analytics handler: rows of the second query
  aresp,       \* analytics handler: the response sent
  epc,         \* per enrollment call: position in the enroll handler
  ebody,       \* per enrollment call: req.body
  existingStudent,  \* per enrollment call: rows of the existence check, -1 before it
  eresp,       \* per enrollment call: the response sent
  lpc,         \* login handler: position
  lbody,       \* login handler: req.body
  lresp        \* login handler: the response sent

callVars == << pc, body, client, sessionId, idx, resp, nConnect, nRelease, poolMax, tx, broken >>
analyticsVars == << apc, trendsResult, engagementResult, aresp >>
enrollVars == << epc, ebody, existingStudent, eresp >>
loginVars == << lpc, lbody, lresp >>

vars == << users, students, studentRows, sessions, records, seqSession, seqRecord,
           today, pc, body, client, sessionId, idx, resp, nConnect, nRelease,
           poolMax, tx, broken, apc, trendsResult, engagementResult, aresp,
           epc, ebody, existingStudent, eresp, lpc, lbody, lresp >>

NoTx == [state |-> "none", sessions |-> {}, records |-> {}]
NoResp == [status |-> 0, sessionId |-> 0]

\* ------------------------------------------------------ handler fragments
\* JavaScript `!v`.
Falsy(v) == v.t = "undefined" \/ (v.t = "string" /\ v.v = "")

\* Variant: an empty attendanceRecords array is treated as missing.
InvalidRejectsEmpty(b) ==
  \/ Falsy(b.sessionData) \/ Falsy(b.attendanceRecords) \/ Falsy(b.subject)
  \/ Len(b.attendanceRecords.v) = 0

Invalid(b) == Falsy(b.sessionData) \/ Falsy(b.attendanceRecords) \/ Falsy(b.subject)

Items(b) == b.attendanceRecords.v

\* Variant: total_students is not passed and takes the column default.
TotalStudentsDefault(b) == 0

TotalStudents(b) == Len(Items(b))

\* Line 180: section = 'S33' unless the body carries one.
Section(b) == IF b.section.t = "undefined" THEN "S33" ELSE b.section.v

\* Variant: the sequence hands out its current value again.
NextValStuck(seq) == seq

NextVal(seq) == seq + 1

\* Variant: attendance_records.student_id without its foreign key.
FkNone(sid) == TRUE

FkStudent(sid) == sid \in students

\* Variant: BEGIN is not issued, so every statement commits on its own.
BeginSkipped(st) == st

BeginState(st) == IF st = "none" THEN "open" ELSE st

SessionRow(id, b) ==
  [session_id |-> id, section |-> Section(b), session_date |-> today,
   total_students |-> TotalStudents(b)]

RecordRow(rid, sid, r) ==
  [record_id |-> rid, session_id |-> sid, student_id |-> r.studentId,
   status |-> r.status, confidence_score |-> r.confidenceScore]

\* Variant: sessionId kept in a variable shared by all requests, so the loop
\* passes the id assigned last by any call.
RecordSessionIdShared(c) == seqSession

\* The session id an iteration of the loop passes: the handler's own const.
RecordSessionId(c) == sessionId[c]

\* Variant: release() after the success response only, not in a finally.
ReleasesOnlyOnSuccess(path) == IF path = "ok" THEN 1 ELSE 0

\* client.release() calls on an exit path of the inner try: the finally
\* block runs once, after the success response and after a rethrown error.
ReleasesIn(path) == 1

\* Line 14: the pool, of at most poolMax connections.
PoolConns == 1..poolMax

IdleConns == { k \in PoolConns : \A c \in Calls : client[c] # k }

\* ------------------------------------------------------------------- Init
SeedStudents == {"STU001", "STU002", "STU003", "STU004", "STU005"}

SeedSessions ==
  { [session_id |-> 1, section |-> "S33", session_date |-> 0, total_students |-> 5] }

SeedRecords ==
  { [record_id |-> 1, session_id |-> 1, student_id |-> "STU001", status |-> "present", confidence_score |-> 850],
    [record_id |-> 2, session_id |-> 1, student_id |-> "STU002", status |-> "present", confidence_score |-> 780],
    [record_id |-> 3, session_id |-> 1, student_id |-> "STU003", status |-> "partial", confidence_score |-> 650],
    [record_id |-> 4, session_id |-> 1, student_id |-> "STU004", status |-> "absent", confidence_score |-> 0],
    [record_id |-> 5, session_id |-> 1, student_id |-> "STU005", status |-> "present", confidence_score |-> 920] }

\* bcrypt: the hash determines the password it was made from.
BcryptHash(password) == << "$2a$10$", password >>
BcryptCompare(password, hash) == hash = BcryptHash(password)

\* Both demo users carry the same password_hash; last_login is NULL (-1).
SeedUsers ==
  { [user_id |-> 1, username |-> "teacher", password_hash |-> BcryptHash("teach123"),
     role |-> "teacher", last_login |-> -1],
    [user_id |-> 2, username |-> "admin", password_hash |-> BcryptHash("teach123"),
     role |-> "admin", last_login |-> -1] }

SeedStudentRows ==
  { [student_id |-> "STU001", full_name |-> "John Doe", section |-> "S33"],
    [student_id |-> "STU002", full_name |-> "Jane Smith", section |-> "S33"],
    [student_id |-> "STU003", full_name |-> "Mike Johnson", section |-> "S34"],
    [student_id |-> "STU004", full_name |-> "Sarah Wilson", section |-> "S34"],
    [student_id |-> "STU005", full_name |-> "David Brown", section |-> "S35"] }

NoEnrollBody ==
  [studentId |-> Undefined, fullName |-> Undefined, faceEmbedding |-> Undefined,
   section |-> Undefined]
NoLoginBody == [username |-> Undefined, password |-> Undefined]

InitEnroll ==
  /\ epc = [e \in Enrolls |-> "idle"]
  /\ ebody = [e \in Enrolls |-> NoEnrollBody]
  /\ existingStudent = [e \in Enrolls |-> -1]
  /\ eresp = [e \in Enrolls |-> [status |-> 0]]

InitLogin ==
  /\ lpc = "idle"
  /\ lbody = NoLoginBody
  /\ lresp = [status |-> 0]

InitAnalytics ==
  /\ apc = "idle"
  /\ trendsResult = << >>
  /\ engagementResult = {}
  /\ aresp = [status |-> 0]

InitCalls ==
  /\ pc = [c \in Calls |-> "idle"]
  /\ body = [c \in Calls |-> [sessionData |-> Undefined, attendanceRecords |-> Undefined,
                               subject |-> Undefined, section |-> Undefined]]
  /\ client = [c \in Calls |-> 0]
  /\ sessionId = [c \in Calls |-> 0]
  /\ idx = [c \in Calls |-> 0]
  /\ resp = [c \in Calls |-> NoResp]
  /\ nConnect = [c \in Calls |-> 0]
  /\ nRelease = [c \in Calls |-> 0]
  /\ tx = [k \in Conns |-> NoTx]
  /\ broken = [k \in Conns |-> FALSE]

Init ==
  /\ poolMax \in 1..PoolSize
  /\ users = SeedUsers
  /\ students = SeedStudents
  /\ studentRows = SeedStudentRows
  /\ sessions = SeedSessions
  /\ records = SeedRecords
  /\ seqSession = 1
  /\ seqRecord = 5
  /\ today = 0
  /\ InitCalls
  /\ InitAnalytics
  /\ InitEnroll
  /\ InitLogin

\* ------------------------------------------- POST /api/attendance/save
storeVars == << users, students, studentRows, sessions, records, seqSession, seqRecord, today >>

\* Lines 174-188: destructure, validate, ask the pool for a connection.
Request(c, b) ==
  /\ pc[c] = "idle"
  /\ body' = [body EXCEPT ![c] = b]
  /\ IF Invalid(b)
       THEN /\ resp' = [resp EXCEPT ![c] = [status |-> 400, sessionId |-> 0]]
            /\ pc' = [pc EXCEPT ![c] = "done"]
       ELSE /\ pc' = [pc EXCEPT ![c] = "connect"]
            /\ UNCHANGED resp
  /\ UNCHANGED << storeVars, client, sessionId, idx, nConnect, nRelease, tx, broken, analyticsVars, poolMax, enrollVars, loginVars >>

\* Line 188 resolves: an idle connection is handed out; BEGIN is issued.
Connect(c) ==
  /\ pc[c] = "connect"
  /\ \E k \in IdleConns :
       /\ client' = [client EXCEPT ![c] = k]
       /\ nConnect' = [nConnect EXCEPT ![c] = @ + 1]
       /\ pc' = [pc EXCEPT ![c] = "begin"]
  /\ UNCHANGED << storeVars, body, sessionId, idx, resp, nRelease, tx, broken, analyticsVars, poolMax, enrollVars, loginVars >>

\* Line 188 rejects (no connection can be opened): outer catch, lines 242-245.
ConnectFail(c) ==
  /\ pc[c] = "connect"
  /\ resp' = [resp EXCEPT ![c] = [status |-> 500, sessionId |-> 0]]
  /\ pc' = [pc EXCEPT ![c] = "done"]
  /\ UNCHANGED << storeVars, body, client, sessionId, idx, nConnect, nRelease, tx, broken, analyticsVars, poolMax, enrollVars, loginVars >>

\* Line 190: BEGIN.  On a transaction already aborted the server rejects it.
Begin(c) ==
  LET k == client[c] IN
  /\ pc[c] = "begin"
  /\ ~broken[k]
  /\ IF tx[k].state = "aborted"
       THEN /\ pc' = [pc EXCEPT ![c] = "rollback"]
            /\ UNCHANGED tx
       ELSE /\ tx' = [tx EXCEPT ![k].state = BeginState(@)]
            /\ pc' = [pc EXCEPT ![c] = "insertSession"]
  /\ UNCHANGED << storeVars, body, client, sessionId, idx, resp, nConnect, nRelease, broken, analyticsVars, poolMax, enrollVars, loginVars >>

\* Lines 193-211: INSERT INTO attendance_sessions ... RETURNING session_id.
InsertSession(c) ==
  LET k == client[c]
      id == NextVal(seqSession)
      row == SessionRow(id, body[c])
  IN
  /\ pc[c] = "insertSession"
  /\ ~broken[k]
  /\ tx[k].state # "aborted"
  /\ seqSession' = id
  /\ sessionId' = [sessionId EXCEPT ![c] = id]
  /\ idx' = [idx EXCEPT ![c] = 1]
  /\ IF tx[k].state = "open"
       THEN /\ tx' = [tx EXCEPT ![k].sessions = @ \cup {row}]
            /\ UNCHANGED sessions
       ELSE /\ sessions' = sessions \cup {row}
            /\ UNCHANGED tx
  /\ pc' = [pc EXCEPT ![c] = IF Len(Items(body[c])) = 0 THEN "commit" ELSE "insertRecord"]
  /\ UNCHANGED << users, students, studentRows, records, seqRecord, today, body, client, resp, nConnect, nRelease, broken, analyticsVars, poolMax, enrollVars, loginVars >>

\* Lines 193-209 rejected by the server (teacher_id not a user, a value that
\* does not fit its column): the transaction is aborted, the catch block runs.
InsertSessionFail(c) ==
  LET k == client[c] IN
  /\ pc[c] = "insertSession"
  /\ ~broken[k]
  /\ tx' = [tx EXCEPT ![k].state = IF @ = "none" THEN "none" ELSE "aborted"]
  /\ pc' = [pc EXCEPT ![c] = "rollback"]
  /\ UNCHANGED << storeVars, body, client, sessionId, idx, resp, nConnect, nRelease, broken, analyticsVars, poolMax, enrollVars, loginVars >>

\* Lines 214-229, one iteration: INSERT INTO attendance_records.  The
\* student_id foreign key rejects an id that is not in students.
InsertRecord(c) ==
  LET k == client[c]
      r == Items(body[c])[idx[c]]
      rid == NextVal(seqRecord)
      row == RecordRow(rid, RecordSessionId(c), r)
  IN
  /\ pc[c] = "insertRecord"
  /\ ~broken[k]
  /\ IF tx[k].state # "aborted" /\ FkStudent(r.studentId)
       THEN /\ seqRecord' = rid
            /\ idx' = [idx EXCEPT ![c] = @ + 1]
            /\ IF tx[k].state = "open"
                 THEN /\ tx' = [tx EXCEPT ![k].records = @ \cup {row}]
                      /\ UNCHANGED records
                 ELSE /\ records' = records \cup {row}
                      /\ UNCHANGED tx
            /\ pc' = [pc EXCEPT ![c] = IF idx[c] = Len(Items(body[c])) THEN "commit" ELSE "insertRecord"]
       ELSE /\ tx' = [tx EXCEPT ![k].state = IF @ = "none" THEN "none" ELSE "aborted"]
            /\ pc' = [pc EXCEPT ![c] = "rollback"]
            /\ UNCHANGED << seqRecord, idx, records >>
  /\ UNCHANGED << users, students, studentRows, sessions, seqSession, today, body, client, sessionId, resp, nConnect, nRelease, broken, analyticsVars, poolMax, enrollVars, loginVars >>

\* Variant: the committed rows replace the relations instead of joining them.
CommitReplacing(c) ==
  LET k == client[c] IN
  /\ pc[c] = "commit"
  /\ ~broken[k]
  /\ sessions' = IF tx[k].state = "open" THEN tx[k].sessions ELSE sessions
  /\ records' = IF tx[k].state = "open" THEN tx[k].records ELSE records
  /\ tx' = [tx EXCEPT ![k] = NoTx]
  /\ pc' = [pc EXCEPT ![c] = "respond"]
  /\ UNCHANGED << users, students, studentRows, seqSession, seqRecord, today, body, client, sessionId, idx, resp, nConnect, nRelease, broken, analyticsVars, poolMax, enrollVars, loginVars >>

\* Line 231: COMMIT.  The open transaction's rows become visible at once; an
\* aborted transaction is rolled back instead.
Commit(c) ==
  LET k == client[c] IN
  /\ pc[c] = "commit"
  /\ ~broken[k]
  /\ sessions' = IF tx[k].state = "open" THEN sessions \cup tx[k].sessions ELSE sessions
  /\ records' = IF tx[k].state = "open" THEN records \cup tx[k].records ELSE records
  /\ tx' = [tx EXCEPT ![k] = NoTx]
  /\ pc' = [pc EXCEPT ![c] = "respond"]
  /\ UNCHANGED << users, students, studentRows, seqSession, seqRecord, today, body, client, sessionId, idx, resp, nConnect, nRelease, broken, analyticsVars, poolMax, enrollVars, loginVars >>

\* Any awaited client.query (lines 190-231) rejects because the connection
\* is lost before the server ran the statement: the server discards the
\* transaction, the catch block runs.
ConnLost(c) ==
  LET k == client[c] IN
  /\ pc[c] \in {"begin", "insertSession", "insertRecord", "commit"}
  /\ ~broken[k]
  /\ broken' = [broken EXCEPT ![k] = TRUE]
  /\ tx' = [tx EXCEPT ![k] = NoTx]
  /\ pc' = [pc EXCEPT ![c] = "rollback"]
  /\ UNCHANGED << storeVars, body, client, sessionId, idx, resp, nConnect, nRelease, analyticsVars, poolMax, enrollVars, loginVars >>

\* Line 231 rejects although the server had committed: the connection is lost
\* between the commit and its acknowledgement.  The catch block runs.
CommitAckLost(c) ==
  LET k == client[c] IN
  /\ pc[c] = "commit"
  /\ ~broken[k]
  /\ sessions' = IF tx[k].state = "open" THEN sessions \cup tx[k].sessions ELSE sessions
  /\ records' = IF tx[k].state = "open" THEN records \cup tx[k].records ELSE records
  /\ tx' = [tx EXCEPT ![k] = NoTx]
  /\ broken' = [broken EXCEPT ![k] = TRUE]
  /\ pc' = [pc EXCEPT ![c] = "rollback"]
  /\ UNCHANGED << users, students, studentRows, seqSession, seqRecord, today, body, client, sessionId, idx, resp, nConnect, nRelease, analyticsVars, poolMax, enrollVars, loginVars >>

\* Variant: the catch block rethrows without issuing ROLLBACK.
RollbackSkipped(c) ==
  /\ pc[c] = "rollback"
  /\ ~broken[client[c]]
  /\ pc' = [pc EXCEPT ![c] = "finally"]
  /\ UNCHANGED << storeVars, body, client, sessionId, idx, resp, nConnect, nRelease, tx, broken, analyticsVars, poolMax, enrollVars, loginVars >>

\* Line 237: ROLLBACK succeeds and discards the transaction's rows.
Rollback(c) ==
  LET k == client[c] IN
  /\ pc[c] = "rollback"
  /\ ~broken[k]
  /\ tx' = [tx EXCEPT ![k] = NoTx]
  /\ pc' = [pc EXCEPT ![c] = "finally"]
  /\ UNCHANGED << storeVars, body, client, sessionId, idx, resp, nConnect, nRelease, broken, analyticsVars, poolMax, enrollVars, loginVars >>

\* Line 237: ROLLBACK itself rejects (the connection is or becomes lost);
\* the error leaves the catch block, the finally block still runs.
RollbackFail(c) ==
  LET k == client[c] IN
  /\ pc[c] = "rollback"
  /\ broken' = [broken EXCEPT ![k] = TRUE]
  /\ tx' = [tx EXCEPT ![k] = NoTx]
  /\ pc' = [pc EXCEPT ![c] = "finally"]
  /\ UNCHANGED << storeVars, body, client, sessionId, idx, resp, nConnect, nRelease, analyticsVars, poolMax, enrollVars, loginVars >>

\* client.release(): the connection goes back to the pool; the pool drops a
\* lost connection and opens a new one in its place.
Released(k) == [tx EXCEPT ![k] = IF broken[k] THEN NoTx ELSE @]

\* The finally block of lines 239-241 on exit path `path`.
Finally(c, path) ==
  LET k == client[c] IN
  /\ nRelease' = [nRelease EXCEPT ![c] = @ + ReleasesIn(path)]
  /\ IF ReleasesIn(path) > 0
       THEN /\ client' = [client EXCEPT ![c] = 0]
            /\ tx' = Released(k)
            /\ broken' = [broken EXCEPT ![k] = FALSE]
       ELSE UNCHANGED << client, tx, broken >>

\* Lines 232-235 then 240: success response, then finally.
RespondOk(c) ==
  /\ pc[c] = "respond"
  /\ resp' = [resp EXCEPT ![c] = [status |-> 200, sessionId |-> sessionId[c]]]
  /\ Finally(c, "ok")
  /\ pc' = [pc EXCEPT ![c] = "done"]
  /\ UNCHANGED << storeVars, body, sessionId, idx, nConnect, analyticsVars, poolMax, enrollVars, loginVars >>

\* Lines 238-245: rethrow, finally releases, outer catch answers 500.
RespondErr(c) ==
  /\ pc[c] = "finally"
  /\ resp' = [resp EXCEPT ![c] = [status |-> 500, sessionId |-> 0]]
  /\ Finally(c, "err")
  /\ pc' = [pc EXCEPT ![c] = "done"]
  /\ UNCHANGED << storeVars, body, sessionId, idx, nConnect, analyticsVars, poolMax, enrollVars, loginVars >>

Next ==
  \E c \in Calls :
    \/ \E b \in Bodies : Request(c, b)
    \/ Connect(c)
    \/ ConnectFail(c)
    \/ Begin(c)
    \/ InsertSession(c)
    \/ InsertSessionFail(c)
    \/ InsertRecord(c)
    \/ Commit(c)
    \/ CommitAckLost(c)
    \/ ConnLost(c)
    \/ Rollback(c)
    \/ RollbackFail(c)
    \/ RespondOk(c)
    \/ RespondErr(c)

Spec == Init /\ [][Next]_vars

\* What a call does once its request is in: the pool hands it a connection
\* when one is idle, each awaited statement resolves or rejects, and the
\* continuation after an await runs.  Requests arrive when clients send them
\* and a failure to open a connection need not happen, so neither is forced.
Progress(c) ==
  \/ Connect(c)
  \/ Begin(c)
  \/ InsertSession(c)
  \/ InsertSessionFail(c)
  \/ InsertRecord(c)
  \/ Commit(c)
  \/ CommitAckLost(c)
  \/ ConnLost(c)
  \/ Rollback(c)
  \/ RollbackFail(c)
  \/ RespondOk(c)
  \/ RespondErr(c)

SpecLive == Init /\ [][Next]_vars /\ \A c \in Calls : WF_vars(Progress(c))

\* ----------------------------------------- GET /api/attendance/analytics
TrendWindowDays == 30
EngagementWindowDays == 7
RiskWindowDays == 30
RiskThreshold == 75

\* The all-NULL right-hand side a LEFT JOIN supplies for a row without match.
NullRecord ==
  [record_id |-> 0, session_id |-> 0, student_id |-> "", status |-> "", confidence_score |-> 0]
NullSession ==
  [session_id |-> 0, section |-> "", session_date |-> 0, total_students |-> 0]
IsNull(row) == row \in {NullRecord, NullSession}

\* date >= CURRENT_DATE - INTERVAL 'n days'
Since(date, n) == date >= today - n

\* CASE WHEN ar.status = 'present' THEN 1 END, counted by COUNT: NULL statuses
\* and other statuses are not counted.
IsPresent(ar) == ~IsNull(ar) /\ ar.status = "present"

RECURSIVE SumConfidence(_)
SumConfidence(rows) ==
  IF rows = {} THEN 0
  ELSE LET j == CHOOSE x \in rows : TRUE
       IN j.ar.confidence_score + SumConfidence(rows \ {j})

RECURSIVE OrderByDate(_)
OrderByDate(rows) ==
  IF rows = {} THEN << >>
  ELSE LET m == CHOOSE x \in rows : \A y \in rows : x.session_date <= y.session_date
       IN << m >> \o OrderByDate(rows \ {m})

\* Lines 252-262.  attendance_rate is AVG over the joined rows of 100 or 0,
\* kept as the exact fraction sum / n.
TrendsJoin ==
  { j \in [s : sessions, ar : records] : j.s.session_id = j.ar.session_id }
  \cup
  { [s |-> s, ar |-> NullRecord] :
      s \in { x \in sessions : \A ar \in records : ar.session_id # x.session_id } }

TrendsWhere == { j \in TrendsJoin : Since(j.s.session_date, TrendWindowDays) }

TrendsGroup(rows, d) ==
  LET grp == { j \in rows : j.s.session_date = d } IN
  [session_date |-> d,
   total_sessions |-> Cardinality(grp),
   attendance_rate |->
     [sum |-> 100 * Cardinality({ j \in grp : IsPresent(j.ar) }),
      n |-> Cardinality(grp)]]

TrendsQueryRows ==
  LET rows == TrendsWhere IN
  OrderByDate({ TrendsGroup(rows, d) : d \in { j.s.session_date : j \in rows } })

\* Lines 265-275.  avg_engagement is kept as the exact fraction sum / n.
EngagementJoin ==
  { j \in [s : sessions, ar : records] : j.s.session_id = j.ar.session_id }

\* Variant: no window on the session date.
EngagementAllDates == EngagementJoin

EngagementWhere ==
  { j \in EngagementJoin : Since(j.s.session_date, EngagementWindowDays) }

EngagementGroup(rows, sec) ==
  LET grp == { j \in rows : j.s.section = sec } IN
  [section |-> sec,
   avg_engagement |-> [sum |-> SumConfidence(grp), n |-> Cardinality(grp)],
   present_count |-> Cardinality({ j \in grp : IsPresent(j.ar) }),
   total_count |-> Cardinality(grp)]

EngagementQueryRows ==
  LET rows == EngagementWhere IN
  { EngagementGroup(rows, sec) : sec \in { j.s.section : j \in rows } }

\* Lines 278-292.  students LEFT JOIN records LEFT JOIN sessions; the WHERE
\* on s.session_date drops every row whose session side is NULL.
RiskJoinRecords ==
  { j \in [st : students, ar : records] : j.ar.student_id = j.st }
  \cup
  { [st |-> st, ar |-> NullRecord] :
      st \in { x \in students : \A ar \in records : ar.student_id # x } }

RiskJoin ==
  LET left == RiskJoinRecords IN
  { [st |-> p[1].st, ar |-> p[1].ar, s |-> p[2]] :
      p \in { x \in left \X sessions :
                ~IsNull(x[1].ar) /\ x[2].session_id = x[1].ar.session_id } }
  \cup
  { [st |-> j.st, ar |-> j.ar, s |-> NullSession] :
      j \in { x \in left :
                IsNull(x.ar) \/ \A s \in sessions : s.session_id # x.ar.session_id } }

RiskWhere ==
  { j \in RiskJoin : ~IsNull(j.s) /\ Since(j.s.session_date, RiskWindowDays) }

RiskGroup(rows, st) ==
  LET grp == { j \in rows : j.st = st } IN
  [student_id |-> st,
   total_sessions |-> Cardinality(grp),
   attended_sessions |-> Cardinality({ j \in grp : IsPresent(j.ar) })]

\* Variant: the threshold itself counts as at risk.
HavingAtMostThreshold(attended, total) == attended * 100 <= RiskThreshold * total

\* HAVING attended * 100.0 / total < 75, on exact numerics.
HavingBelowThreshold(attended, total) == attended * 100 < RiskThreshold * total

RiskHaving ==
  LET rows == RiskWhere IN
  { g \in { RiskGroup(rows, st) : st \in { j.st : j \in rows } } :
      HavingBelowThreshold(g.attended_sessions, g.total_sessions) }

\* attendance_percentage of a <= attendance_percentage of b.
PercentageLeq(a, b) ==
  a.attended_sessions * b.total_sessions <= b.attended_sessions * a.total_sessions

\* ORDER BY attendance_percentage ASC: every order of the rows that is
\* ascending; rows of equal percentage come in either order.
RiskOrders ==
  LET having == RiskHaving
      n == Cardinality(having)
  IN { q \in [1..n -> having] :
         /\ \A i, j \in 1..n : i # j => q[i] # q[j]
         /\ \A i, j \in 1..n : i < j => PercentageLeq(q[i], q[j]) }

\* Variant: the request is recorded in users.last_login.
AnalyticsRequestStamping ==
  /\ apc = "idle"
  /\ apc' = "trends"
  /\ users' = { [u EXCEPT !.last_login = today] : u \in users }
  /\ UNCHANGED << students, studentRows, sessions, records, seqSession, seqRecord, today,
                  callVars, enrollVars, loginVars, trendsResult, engagementResult, aresp >>

\* Line 249: the request arrives and the first query is issued.
AnalyticsRequest ==
  /\ apc = "idle"
  /\ apc' = "trends"
  /\ UNCHANGED << storeVars, callVars, enrollVars, loginVars, trendsResult, engagementResult, aresp >>

TrendsQuery ==
  /\ apc = "trends"
  /\ trendsResult' = TrendsQueryRows
  /\ apc' = "engagement"
  /\ UNCHANGED << storeVars, callVars, enrollVars, loginVars, engagementResult, aresp >>

EngagementQuery ==
  /\ apc = "engagement"
  /\ engagementResult' = EngagementQueryRows
  /\ apc' = "risk"
  /\ UNCHANGED << storeVars, callVars, enrollVars, loginVars, trendsResult, aresp >>

\* Lines 278-298: the last query resolves and the response is sent; the
\* handler's locals end with it.
RiskQuery ==
  /\ apc = "risk"
  /\ \E q \in RiskOrders :
       aresp' = [status |-> 200, trends |-> trendsResult,
                 engagement |-> engagementResult, riskStudents |-> q]
  /\ apc' = "done"
  /\ trendsResult' = << >>
  /\ engagementResult' = {}
  /\ UNCHANGED << storeVars, callVars, enrollVars, loginVars >>

\* Variant: the catch block also returns what the earlier queries produced.
AnalyticsFailPartial ==
  /\ apc \in {"trends", "engagement", "risk"}
  /\ aresp' = [status |-> 500, trends |-> trendsResult, engagement |-> engagementResult]
  /\ apc' = "done"
  /\ trendsResult' = << >>
  /\ engagementResult' = {}
  /\ UNCHANGED << storeVars, callVars, enrollVars, loginVars >>

\* Lines 299-302: any of the three queries rejects.
AnalyticsFail ==
  /\ apc \in {"trends", "engagement", "risk"}
  /\ aresp' = [status |-> 500]
  /\ apc' = "done"
  /\ trendsResult' = << >>
  /\ engagementResult' = {}
  /\ UNCHANGED << storeVars, callVars, enrollVars, loginVars >>

\* ------------------------------------------------ stores to query
MaxRows == 5
MaxTicks == 1

\* The day the analytics are asked for: the seed session of day 0 is then the
\* oldest day still inside the 30-day windows.
StartDay == RiskWindowDays

DrawnKinds == 2 * 2 * Cardinality(Statuses)

\* The i-th kind of drawn row: session 2 or 3, STU001 or STU002, a status.
KindAt(i) ==
  [session_id |-> 2 + ((i - 1) \div 6),
   student_id |-> IF ((i - 1) \div 3) % 2 = 0 THEN "STU001" ELSE "STU002",
   status |-> CASE (i - 1) % 3 = 0 -> "present"
                [] (i - 1) % 3 = 1 -> "partial"
                [] OTHER -> "absent"]

ScoreOf(status) ==
  CASE status = "present" -> 850 [] status = "partial" -> 650 [] OTHER -> 0

\* Bags of at most MaxRows rows, each bag once.
Draws ==
  UNION { { q \in [1..n -> 1..DrawnKinds] : \A i \in 1..(n - 1) : q[i] <= q[i + 1] } :
          n \in 0..MaxRows }

DrawnRecords(q) ==
  { [record_id |-> 5 + i, session_id |-> KindAt(q[i]).session_id,
     student_id |-> KindAt(q[i]).student_id, status |-> KindAt(q[i]).status,
     confidence_score |-> ScoreOf(KindAt(q[i]).status)] : i \in DOMAIN q }

DrawnSession(id, sec, date, q) ==
  [session_id |-> id, section |-> sec, session_date |-> date,
   total_students |-> Cardinality({ i \in DOMAIN q : KindAt(q[i]).session_id = id })]

\* The store after the seed, one enrollment and two committed save calls of
\* earlier days.
InitAnalyticsStore ==
  \E q \in Draws :
  \E d2 \in {StartDay - RiskWindowDays, StartDay - EngagementWindowDays} :
  \E d3 \in {StartDay - EngagementWindowDays, StartDay} :
  \E sec3 \in {"S33", "S34"} :
    /\ users = SeedUsers
    /\ students = SeedStudents \cup {"STU006"}
    /\ studentRows = SeedStudentRows
         \cup { [student_id |-> "STU006", full_name |-> "Ann Lee", section |-> "S33"] }
    /\ sessions = SeedSessions \cup { DrawnSession(2, "S33", d2, q), DrawnSession(3, sec3, d3, q) }
    /\ records = SeedRecords \cup DrawnRecords(q)
    /\ seqSession = 3
    /\ seqRecord = 5 + Len(q)
    /\ today = StartDay

InitA ==
  /\ InitAnalyticsStore /\ poolMax = PoolSize
  /\ InitCalls /\ InitAnalytics /\ InitEnroll /\ InitLogin

Tick ==
  /\ today < StartDay + MaxTicks
  /\ today' = today + 1
  /\ UNCHANGED << users, students, studentRows, sessions, records, seqSession, seqRecord, callVars, analyticsVars, enrollVars, loginVars >>

NextA ==
  \/ AnalyticsRequest
  \/ TrendsQuery
  \/ EngagementQuery
  \/ RiskQuery
  \/ AnalyticsFail
  \/ Tick

SpecAnalytics == InitA /\ [][NextA]_vars

\* ------------------------------------------- POST /api/students/enroll
EnrollBodies ==
  { [studentId |-> Str(id), fullName |-> Str(name), faceEmbedding |-> Arr(<< >>),
     section |-> Undefined] : id \in {"STU001", "STU999"}, name \in {"Ann Lee", "Bo Chen"} }
  \cup
  { [studentId |-> Undefined, fullName |-> Str("Ann Lee"), faceEmbedding |-> Arr(<< >>),
     section |-> Undefined],
    [studentId |-> Str("STU999"), fullName |-> Str(""), faceEmbedding |-> Arr(<< >>),
     section |-> Undefined],
    [studentId |-> Str("STU999"), fullName |-> Str("Ann Lee"), faceEmbedding |-> Undefined,
     section |-> Undefined] }

\* Line 142.
EnrollInvalid(b) == Falsy(b.studentId) \/ Falsy(b.fullName) \/ Falsy(b.faceEmbedding)

StudentRow(b) ==
  [student_id |-> b.studentId.v, full_name |-> b.fullName.v, section |-> Section(b)]

\* Variant: students.student_id without its primary key.
PkNone(sid) == TRUE

\* The primary key of students accepts a student_id that no row carries.
PkStudent(sid) == sid \notin students

\* Lines 138-146: destructure, validate, issue the existence check.
EnrollRequest(e, b) ==
  /\ epc[e] = "idle"
  /\ ebody' = [ebody EXCEPT ![e] = b]
  /\ IF EnrollInvalid(b)
       THEN /\ eresp' = [eresp EXCEPT ![e] = [status |-> 400]]
            /\ epc' = [epc EXCEPT ![e] = "done"]
       ELSE /\ epc' = [epc EXCEPT ![e] = "check"]
            /\ UNCHANGED eresp
  /\ UNCHANGED << storeVars, callVars, analyticsVars, loginVars, existingStudent >>

\* Lines 147-156: the SELECT resolves; a row found answers 400, none goes on
\* to the INSERT.
EnrollCheck(e) ==
  LET rows == { r \in studentRows : r.student_id = ebody[e].studentId.v } IN
  /\ epc[e] = "check"
  /\ existingStudent' = [existingStudent EXCEPT ![e] = Cardinality(rows)]
  /\ IF Cardinality(rows) > 0
       THEN /\ eresp' = [eresp EXCEPT ![e] = [status |-> 400]]
            /\ epc' = [epc EXCEPT ![e] = "done"]
       ELSE /\ epc' = [epc EXCEPT ![e] = "insert"]
            /\ UNCHANGED eresp
  /\ UNCHANGED << storeVars, callVars, analyticsVars, loginVars, ebody >>

\* Lines 157-166: the INSERT resolves and the row is answered back, or the
\* primary key rejects it and the catch block answers 500.
EnrollInsert(e) ==
  LET row == StudentRow(ebody[e]) IN
  /\ epc[e] = "insert"
  /\ IF PkStudent(row.student_id)
       THEN /\ studentRows' = studentRows \cup {row}
            /\ students' = students \cup {row.student_id}
            /\ eresp' = [eresp EXCEPT ![e] =
                 [status |-> 200, student_id |-> row.student_id, full_name |-> row.full_name]]
       ELSE /\ eresp' = [eresp EXCEPT ![e] = [status |-> 500]]
            /\ UNCHANGED << students, studentRows >>
  /\ epc' = [epc EXCEPT ![e] = "done"]
  /\ UNCHANGED << users, sessions, records, seqSession, seqRecord, today, callVars,
                  analyticsVars, loginVars, ebody, existingStudent >>

\* Line 157 rejects although the server had inserted the row: the connection is
\* lost between the statement's own commit and its acknowledgement.
EnrollInsertAckLost(e) ==
  LET row == StudentRow(ebody[e]) IN
  /\ epc[e] = "insert"
  /\ PkStudent(row.student_id)
  /\ studentRows' = studentRows \cup {row}
  /\ students' = students \cup {row.student_id}
  /\ eresp' = [eresp EXCEPT ![e] = [status |-> 500]]
  /\ epc' = [epc EXCEPT ![e] = "done"]
  /\ UNCHANGED << users, sessions, records, seqSession, seqRecord, today, callVars,
                  analyticsVars, loginVars, ebody, existingStudent >>

\* Lines 167-170: either pool.query rejects before the server ran the
\* statement.
EnrollFail(e) ==
  /\ epc[e] \in {"check", "insert"}
  /\ eresp' = [eresp EXCEPT ![e] = [status |-> 500]]
  /\ epc' = [epc EXCEPT ![e] = "done"]
  /\ UNCHANGED << storeVars, callVars, analyticsVars, loginVars, ebody, existingStudent >>

NextEnroll ==
  \E e \in Enrolls :
    \/ \E b \in EnrollBodies : EnrollRequest(e, b)
    \/ EnrollCheck(e)
    \/ EnrollInsert(e)
    \/ EnrollInsertAckLost(e)
    \/ EnrollFail(e)

SpecEnroll == Init /\ [][NextEnroll]_vars

\* ------------------------------------------------- POST /api/auth/login
\* A missing field, the demo user with its password and with another one, and
\* a username without a row.
LoginBodies ==
  { [username |-> Undefined, password |-> Str("teach123")],
    [username |-> Str("teacher"), password |-> Str("teach123")],
    [username |-> Str("teacher"), password |-> Str("wrong")],
    [username |-> Str("ghost"), password |-> Str("teach123")] }

\* Lines 65-77: destructure, validate, issue the SELECT.
LoginRequest(b) ==
  /\ lpc = "idle"
  /\ lbody' = b
  /\ IF Falsy(b.username) \/ Falsy(b.password)
       THEN lresp' = [status |-> 400] /\ lpc' = "done"
       ELSE lresp' = lresp /\ lpc' = "query"
  /\ UNCHANGED << storeVars, callVars, analyticsVars, enrollVars >>

\* Lines 74-111: the SELECT resolves; no row or a password that does not match
\* the row's hash answers 401, otherwise the token's payload is answered.
LoginQuery ==
  LET rows == { u \in users : u.username = lbody.username.v } IN
  /\ lpc = "query"
  /\ IF rows = {}
       THEN lresp' = [status |-> 401]
       ELSE LET user == CHOOSE u \in rows : TRUE IN
            IF BcryptCompare(lbody.password.v, user.password_hash)
              THEN lresp' = [status |-> 200, userId |-> user.user_id,
                             username |-> user.username, role |-> user.role]
              ELSE lresp' = [status |-> 401]
  /\ lpc' = "done"
  /\ UNCHANGED << storeVars, callVars, analyticsVars, enrollVars, lbody >>

\* Lines 112-115: the SELECT rejects.
LoginFail ==
  /\ lpc = "query"
  /\ lresp' = [status |-> 500]
  /\ lpc' = "done"
  /\ UNCHANGED << storeVars, callVars, analyticsVars, enrollVars, lbody >>

\* ------------------------------------------------ the four handlers
\* Requests of every route against one store: save and enrollment calls,
\* one analytics request and one login, their awaits interleaved.
NumSystemCalls == 1
SystemCalls == 1..NumSystemCalls

NextSystem ==
  \/ \E c \in SystemCalls :
       \/ \E b \in Bodies : Request(c, b)
       \/ Connect(c)
       \/ ConnectFail(c)
       \/ Begin(c)
       \/ InsertSession(c)
       \/ InsertSessionFail(c)
       \/ InsertRecord(c)
       \/ Commit(c)
       \/ CommitAckLost(c)
       \/ ConnLost(c)
       \/ Rollback(c)
       \/ RollbackFail(c)
       \/ RespondOk(c)
       \/ RespondErr(c)
  \/ \E e \in SystemCalls :
       \/ \E b \in EnrollBodies : EnrollRequest(e, b)
       \/ EnrollCheck(e)
       \/ EnrollInsert(e)
       \/ EnrollInsertAckLost(e)
       \/ EnrollFail(e)
  \/ AnalyticsRequest
  \/ TrendsQuery
  \/ EngagementQuery
  \/ RiskQuery
  \/ AnalyticsFail
  \/ \E b \in LoginBodies : LoginRequest(b)
  \/ LoginQuery
  \/ LoginFail

\* The pool at its full size.
InitSystem == Init /\ poolMax = PoolSize

SpecSystem == InitSystem /\ [][NextSystem]_vars

\* ======================================================== properties
Started(c) == pc[c] # "idle"
Done(c) == pc[c] = "done"

SessOf(sid) == { s \in sessions : s.session_id = sid }
RowsOf(sid) == { r \in records : r.session_id = sid }

\* The committed rows of session sid are the submitted entries, one row each.
RowsMatch(sid, items) ==
  /\ Cardinality(RowsOf(sid)) = Len(items)
  /\ \A rk \in RecordKinds :
       Cardinality({ r \in RowsOf(sid) :
                       /\ r.student_id = rk.studentId
                       /\ r.status = rk.status
                       /\ r.confidence_score = rk.confidenceScore })
         = Cardinality({ i \in DOMAIN items : items[i] = rk })

AllOf(c) ==
  /\ sessionId[c] # 0
  /\ Cardinality(SessOf(sessionId[c])) = 1
  /\ RowsMatch(sessionId[c], Items(body[c]))

NoneOf(c) ==
  \/ sessionId[c] = 0
  \/ (SessOf(sessionId[c]) = {} /\ RowsOf(sessionId[c]) = {})

\* C1: once a save call has completed, with a success or a failure response,
\* the committed store holds its session row with one record row per
\* submitted entry, or neither its session row nor any of its record rows.
C1_AtomicAtCompletion ==
  \A c \in Calls : Done(c) => (NoneOf(c) \/ AllOf(c))

\* C1 witness: one call failed at its second entry after the first was
\* inserted, and another call committed two entries.
C1_Witness ==
  \E c, d \in Calls :
    /\ Done(c) /\ resp[c].status = 500 /\ sessionId[c] # 0 /\ idx[c] = 2 /\ NoneOf(c)
    /\ Done(d) /\ resp[d].status = 200 /\ Len(Items(body[d])) = 2 /\ AllOf(d)

\* C2: every committed session's total_students is the number of committed
\* record rows of that session, and a successful call with an empty
\* attendanceRecords leaves a session with total_students 0 and no rows.
C2_TotalStudentsIsRecordCount ==
  /\ \A s \in sessions : s.total_students = Cardinality(RowsOf(s.session_id))
  /\ \A c \in Calls :
       (Done(c) /\ resp[c].status = 200 /\ Len(Items(body[c])) = 0) =>
         /\ \E s \in sessions : s.session_id = resp[c].sessionId /\ s.total_students = 0
         /\ RowsOf(resp[c].sessionId) = {}

\* C2 witness: a committed empty session and a committed session of two rows.
C2_Witness ==
  \E c, d \in Calls :
    /\ Done(c) /\ resp[c].status = 200 /\ Len(Items(body[c])) = 0
    /\ \E s \in sessions : s.session_id = sessionId[c] /\ s.total_students = 0
    /\ Done(d) /\ resp[d].status = 200
    /\ \E s \in sessions : s.session_id = sessionId[d] /\ s.total_students = 2

HasUnenrolled(b) ==
  ~Invalid(b) /\ \E i \in DOMAIN Items(b) : Items(b)[i].studentId \notin students

\* C3: a completed call that submitted an entry whose studentId is not in
\* students, at any position, answered 500 and left no session row and no
\* record row.
C3_UnenrolledFailsWhole ==
  \A c \in Calls :
    (Done(c) /\ HasUnenrolled(body[c])) => (resp[c].status = 500 /\ NoneOf(c))

\* C3 witness: the unenrolled entry came second; the session row and the first
\* record had been inserted when the call failed.
C3_Witness ==
  \E c \in Calls :
    /\ Done(c) /\ HasUnenrolled(body[c])
    /\ Items(body[c])[1].studentId \in students
    /\ sessionId[c] # 0 /\ idx[c] = 2 /\ resp[c].status = 500

EmptyButPresent(b) ==
  /\ ~Falsy(b.sessionData) /\ ~Falsy(b.subject)
  /\ b.attendanceRecords = Arr(<< >>)

\* C4: a request whose sessionData, attendanceRecords or subject is missing is
\* answered 400 in the step that receives it, with no connection acquired and
\* the store and every transaction unchanged; a request with an empty
\* attendanceRecords array and the other two present is not answered 400 and
\* goes on to ask for a connection.
C4_ValidationStep ==
  [][ \A c \in Calls :
        (pc[c] = "idle" /\ pc'[c] # "idle") =>
          /\ Invalid(body'[c]) =>
               /\ pc'[c] = "done" /\ resp'[c].status = 400
               /\ nConnect' = nConnect /\ client' = client /\ tx' = tx
               /\ storeVars' = storeVars
          /\ EmptyButPresent(body'[c]) =>
               /\ pc'[c] = "connect" /\ resp'[c].status # 400 ]_vars

\* C4 witness: one call was rejected by validation, another with an empty
\* array went through to a success response.
C4_Witness ==
  \E c, d \in Calls :
    /\ Done(c) /\ Invalid(body[c]) /\ resp[c].status = 400 /\ nConnect[c] = 0
    /\ Done(d) /\ EmptyButPresent(body[d]) /\ resp[d].status = 200

HasBadStatus(b) ==
  ~Invalid(b) /\ \E i \in DOMAIN Items(b) : Items(b)[i].status \notin Statuses

\* C5: a call with an entry whose status is not present, partial or absent is
\* answered 400, and no committed record row has such a status.
C5_StatusValidated ==
  /\ \A c \in Calls : (Done(c) /\ HasBadStatus(body[c])) => resp[c].status = 400
  /\ \A r \in records : r.status \in Statuses

\* C6: two completed successful calls with the same body have different
\* session ids, each session row exists once, and each holds its own full
\* set of record rows.
C6_IdenticalInputTwoSessions ==
  \A c, d \in Calls :
    (c # d /\ Done(c) /\ Done(d) /\ resp[c].status = 200 /\ resp[d].status = 200
       /\ body[c] = body[d]) =>
      /\ resp[c].sessionId # resp[d].sessionId
      /\ AllOf(c) /\ AllOf(d)
      /\ RowsOf(resp[c].sessionId) \cap RowsOf(resp[d].sessionId) = {}

\* C6 witness: two successful calls with the same two-entry body.
C6_Witness ==
  \E c, d \in Calls :
    /\ c # d /\ Done(c) /\ Done(d) /\ resp[c].status = 200 /\ resp[d].status = 200
    /\ body[c] = body[d] /\ Len(Items(body[c])) = 2

\* C7: a call releases the connection it acquired exactly once: it never
\* releases more than it acquired, it holds a connection exactly while it has
\* acquired and not released one, a completed call has released what it
\* acquired, no connection is held by two calls, and when no call is in
\* flight no connection is checked out.
C7_ReleasedExactlyOnce ==
  /\ \A c \in Calls :
       /\ nRelease[c] <= nConnect[c] /\ nConnect[c] <= 1
       /\ (client[c] # 0) <=> (nConnect[c] = 1 /\ nRelease[c] = 0)
       /\ Done(c) => (nRelease[c] = nConnect[c] /\ client[c] = 0)
  /\ \A c, d \in Calls : (c # d /\ client[c] # 0) => client[c] # client[d]
  /\ (\A c \in Calls : pc[c] \in {"idle", "done"}) => IdleConns = PoolConns

\* C7 witness: all calls completed, one through the success path and one
\* through the error path, each having acquired and released one connection.
C7_Witness ==
  /\ \A c \in Calls : Done(c)
  /\ \E c, d \in Calls :
       /\ resp[c].status = 200 /\ nConnect[c] = 1 /\ nRelease[c] = 1
       /\ resp[d].status = 500 /\ nConnect[d] = 1 /\ nRelease[d] = 1

\* C8: in every state, what other connections can read (the committed
\* relations) holds, for every session, the session row once with all the
\* entries submitted for it, and no record row without its session row.
C8_NoPartialSessionVisible ==
  /\ \A s \in sessions :
       /\ Cardinality(SessOf(s.session_id)) = 1
       /\ \/ (s \in SeedSessions /\ RowsOf(s.session_id) = SeedRecords)
          \/ \E c \in Calls :
               sessionId[c] = s.session_id /\ RowsMatch(s.session_id, Items(body[c]))
  /\ \A r \in records : SessOf(r.session_id) # {}

\* C8 witness: a call is in the middle of its loop, its session row and first
\* record written but uncommitted, while another call's session is committed.
C8_Witness ==
  \E c, d \in Calls :
    /\ pc[c] = "insertRecord" /\ idx[c] = 2
    /\ tx[client[c]].sessions # {} /\ tx[client[c]].records # {}
    /\ SessOf(sessionId[c]) = {}
    /\ Done(d) /\ resp[d].status = 200 /\ Len(Items(body[d])) = 2

\* C9: the rows a call has written on its connection all carry the session id
\* assigned to that call, calls in flight hold different connections, and no
\* two calls were assigned the same session id.
C9_RecordsCarryOwnSession ==
  /\ \A c \in Calls :
       client[c] # 0 =>
         /\ \A s \in tx[client[c]].sessions : s.session_id = sessionId[c]
         /\ \A r \in tx[client[c]].records : r.session_id = sessionId[c]
  /\ \A c, d \in Calls :
       c # d =>
         /\ client[c] # 0 => client[c] # client[d]
         /\ sessionId[c] # 0 => sessionId[c] # sessionId[d]

\* C9 witness: two calls are both inside their loops, each with a record
\* written on its own connection.
C9_Witness ==
  \E c, d \in Calls :
    /\ c # d /\ pc[c] = "insertRecord" /\ pc[d] = "insertRecord"
    /\ tx[client[c]].records # {} /\ tx[client[d]].records # {}

\* Records of student st in sessions dated within the last 30 days.
RecentRecords(st) ==
  { r \in records :
      /\ r.student_id = st
      /\ \E s \in sessions : s.session_id = r.session_id /\ s.session_date >= today - 30 }

RecentPresent(st) == Cardinality({ r \in RecentRecords(st) : r.status = "present" })
RecentTotal(st) == Cardinality(RecentRecords(st))

RiskIds(q) == { q[i].student_id : i \in DOMAIN q }

RiskListExact(q) ==
  /\ RiskIds(q) = { st \in students :
                      /\ RecentTotal(st) >= 1
                      /\ 100 * RecentPresent(st) < 75 * RecentTotal(st) }
  /\ \A i, j \in DOMAIN q : i # j => q[i].student_id # q[j].student_id
  /\ \A st \in students :
       (RecentTotal(st) = 0 \/ 100 * RecentPresent(st) = 75 * RecentTotal(st))
         => st \notin RiskIds(q)
  /\ \A i \in DOMAIN q :
       /\ q[i].total_sessions = RecentTotal(q[i].student_id)
       /\ q[i].attended_sessions = RecentPresent(q[i].student_id)
  /\ \A i, j \in DOMAIN q :
       i < j => RecentPresent(q[i].student_id) * RecentTotal(q[j].student_id)
                  <= RecentPresent(q[j].student_id) * RecentTotal(q[i].student_id)

\* C10: when the risk query resolves, riskStudents lists exactly the students
\* with at least one record in a session of the last 30 days whose
\* 100 * present / total over those records is below 75 (a student at exactly
\* 75 and a student with no such record are left out), each once, in
\* ascending order of that percentage.
C10_RiskStudentsExact ==
  [][ (apc = "risk" /\ apc' = "done" /\ aresp'.status = 200)
        => RiskListExact(aresp'.riskStudents) ]_vars

\* C10 witness: a response listing at least three students of different
\* percentages, while one student stands at exactly 75 (3 of 4) and another
\* has no record in the window.
C10_Witness ==
  /\ apc = "done" /\ aresp.status = 200 /\ today = StartDay
  /\ RiskListExact(aresp.riskStudents)
  /\ Len(aresp.riskStudents) >= 3
  /\ \E i, j \in DOMAIN aresp.riskStudents :
       i < j /\ ~PercentageLeq(aresp.riskStudents[j], aresp.riskStudents[i])
  /\ \E st \in students : RecentTotal(st) = 4 /\ RecentPresent(st) = 3
  /\ \E st \in students : RecentTotal(st) = 0

\* Sessions dated d, and the records joined to them.
SessionsOn(d) == { s \in sessions : s.session_date = d }
RecordsOn(d) ==
  { r \in records : \E s \in SessionsOn(d) : s.session_id = r.session_id }

\* C11: every trend row's total_sessions is the number of sessions dated that
\* row's session_date, whatever the number of records of those sessions.
C11_TotalSessionsDistinct ==
  \A i \in DOMAIN trendsResult :
    trendsResult[i].total_sessions
      = Cardinality(SessionsOn(trendsResult[i].session_date))

\* C12: every trend row's attendance_rate is the average, over the records
\* joined to the sessions of that date, of 100 for present and 0 for any other
\* status; a session without records adds no term to the average.
C12_RateOverJoinedRecords ==
  \A i \in DOMAIN trendsResult :
    LET row == trendsResult[i]
        recs == RecordsOn(row.session_date)
    IN /\ row.attendance_rate.n = Cardinality(recs)
       /\ row.attendance_rate.sum
            = 100 * Cardinality({ r \in recs : r.status = "present" })

\* Records of the sessions of section sec dated within the last 7 days.
WeekRecords(sec) ==
  { r \in records :
      \E s \in sessions :
        /\ s.session_id = r.session_id
        /\ s.section = sec
        /\ s.session_date >= today - 7 }

EngagementExact(rows) ==
  /\ { g.section : g \in rows }
       = { s.section : s \in { x \in sessions : WeekRecords(x.section) # {} } }
  /\ \A g, h \in rows : g.section = h.section => g = h
  /\ \A g \in rows :
       /\ g.present_count
            = Cardinality({ r \in WeekRecords(g.section) : r.status = "present" })
       /\ g.total_count = Cardinality(WeekRecords(g.section))

\* C13: when the engagement query resolves, it holds one row per section that
\* has a record in a session of the last 7 days; the row's present_count is
\* the number of those records with status present and its total_count the
\* number of those records of any status; records of older sessions are not
\* counted.
C13_EngagementCounts ==
  [][ (apc = "engagement" /\ apc' = "risk") => EngagementExact(engagementResult') ]_vars

\* C13 witness: section S33 has 3 present, 1 partial and 1 absent record inside
\* the window and its row reads present_count 3, total_count 5, while the five
\* records of the seed session of the same section lie outside the window.
C13_Witness ==
  /\ apc = "risk" /\ EngagementExact(engagementResult)
  /\ \E g \in engagementResult :
       /\ g.section = "S33" /\ g.present_count = 3 /\ g.total_count = 5
       /\ Cardinality({ r \in WeekRecords("S33") : r.status = "partial" }) = 1
       /\ Cardinality({ r \in WeekRecords("S33") : r.status = "absent" }) = 1
  /\ \E s \in sessions :
       /\ s.section = "S33" /\ s.session_date < today - 7
       /\ Cardinality(RowsOf(s.session_id)) = 5

ResultFields == {"trends", "engagement", "riskStudents"}

\* C14: no response is sent before the handler ends, and the response sent is
\* either a success carrying all of trends, engagement and riskStudents or a
\* failure carrying none of them.
C14_AllOrNothing ==
  /\ apc # "done" => aresp = [status |-> 0]
  /\ apc = "done" =>
       \/ aresp.status = 200 /\ ResultFields \subseteq DOMAIN aresp
       \/ aresp.status = 500 /\ ResultFields \cap DOMAIN aresp = {}

\* C14 witness: a failure response with none of the result sets, on a store
\* for which each of the three queries has rows, so that whichever query
\* failed the results of the others existed.
C14_Witness ==
  /\ apc = "done" /\ aresp.status = 500 /\ ResultFields \cap DOMAIN aresp = {}
  /\ TrendsQueryRows # << >> /\ EngagementQueryRows # {} /\ RiskHaving # {}

RowsOfStudent(sid) == { r \in studentRows : r.student_id = sid }

\* C16: the students relation never holds two rows of one student_id and no
\* row of it is ever changed or removed; an enrollment call that completes
\* while a row of its student_id exists answers an error and leaves the
\* relation as it was, whether the row was there before the call's existence
\* check or was inserted by another call after it.
C16_OneRowPerStudentId ==
  [][ /\ \A r1, r2 \in studentRows' : r1.student_id = r2.student_id => r1 = r2
      /\ studentRows \subseteq studentRows'
      /\ \A e \in Enrolls :
           ( /\ epc[e] # "done" /\ epc'[e] = "done"
             /\ ~EnrollInvalid(ebody'[e])
             /\ RowsOfStudent(ebody'[e].studentId.v) # {} )
           => /\ eresp'[e].status \in {400, 500}
              /\ studentRows' = studentRows ]_vars

\* C16 witness: two calls for the same new student_id with different names
\* both found no row in their existence checks; one was answered its row, the
\* other an error, and the relation holds the one row of the first.
C16_Witness ==
  \E e, f \in Enrolls :
    /\ e # f /\ epc[e] = "done" /\ epc[f] = "done"
    /\ ebody[e].studentId = ebody[f].studentId
    /\ ebody[e].fullName # ebody[f].fullName
    /\ existingStudent[e] = 0 /\ existingStudent[f] = 0
    /\ eresp[e].status = 200 /\ eresp[f].status = 500
    /\ RowsOfStudent(ebody[e].studentId.v) = { StudentRow(ebody[e]) }

\* C15: no step of the analytics handler, towards a success or a failure
\* response, changes the users, students, sessions or records relation.
C15_AnalyticsReadOnly ==
  [][ apc' # apc =>
        /\ users' = users
        /\ students' = students /\ studentRows' = studentRows
        /\ sessions' = sessions
        /\ records' = records ]_vars

\* C15 witness: an analytics call has answered with rows computed from the
\* store, and the four relations are what they were before it.
C15_Witness ==
  /\ apc = "done" /\ aresp.status = 200
  /\ Len(aresp.trends) > 0 /\ aresp.engagement # {} /\ Len(aresp.riskStudents) > 0
  /\ users = SeedUsers /\ studentRows = SeedStudentRows
  /\ sessions = SeedSessions /\ records = SeedRecords

\* C17: no step removes or changes a committed session or record row; a step
\* that adds rows is the COMMIT of one save call, and the rows it adds all
\* carry that call's session id, of which no row was committed before.
C17_AppendOnly ==
  [][ /\ sessions \subseteq sessions'
      /\ records \subseteq records'
      /\ (sessions' # sessions \/ records' # records) =>
           \E c \in Calls :
             /\ pc[c] = "commit" /\ pc'[c] # "commit"
             /\ SessOf(sessionId[c]) = {} /\ RowsOf(sessionId[c]) = {}
             /\ \A s \in sessions' \ sessions : s.session_id = sessionId[c]
             /\ \A r \in records' \ records : r.session_id = sessionId[c] ]_vars

\* C17 witness: after the seed session, a save call committed a session of two
\* records, an enrollment inserted a student, an analytics request and a login
\* were answered, and the seed session and its five records are still there
\* beside the new rows.
C17_Witness ==
  /\ \E c \in Calls :
       Done(c) /\ resp[c].status = 200 /\ Len(Items(body[c])) = 2 /\ AllOf(c)
  /\ \E e \in Enrolls : epc[e] = "done" /\ eresp[e].status = 200
  /\ apc = "done" /\ aresp.status = 200
  /\ lpc = "done" /\ lresp.status = 200
  /\ SeedSessions \subseteq sessions /\ SeedRecords \subseteq records
  /\ Cardinality(sessions) = 2 /\ Cardinality(records) = 7

\* C18: a call that was answered 200 with a sessionId has that session
\* committed with all its submitted entries, and a call that was answered a
\* failure has no session row in the committed store.
C18_ResponseMatchesStore ==
  \A c \in Calls :
    /\ resp[c].status = 200 =>
         /\ resp[c].sessionId = sessionId[c]
         /\ AllOf(c)
    /\ resp[c].status \in {400, 500} =>
         (sessionId[c] = 0 \/ SessOf(sessionId[c]) = {})

\* C19: every connection that is in the pool has no transaction, open or
\* aborted, and no uncommitted rows; a call that has just been handed a
\* connection finds none on it, and the uncommitted rows on a connection a
\* call holds are rows of that call's own session.
C19_PooledConnectionsClean ==
  /\ \A k \in IdleConns : tx[k] = NoTx
  /\ \A c \in Calls :
       client[c] # 0 =>
         /\ pc[c] = "begin" => tx[client[c]] = NoTx
         /\ \A s \in tx[client[c]].sessions : s.session_id = sessionId[c]
         /\ \A r \in tx[client[c]].records : r.session_id = sessionId[c]

\* C19 witness: with a pool of one connection, a call failed after it had
\* written its session row and a record and was answered 500; a later call
\* holds the same connection, in a transaction whose only rows are its own.
C19_Witness ==
  \E c, d \in Calls :
    /\ poolMax = 1
    /\ Done(c) /\ resp[c].status = 500 /\ sessionId[c] # 0 /\ idx[c] = 2
    /\ nRelease[c] = 1
    /\ pc[d] = "insertRecord" /\ client[d] = 1
    /\ tx[1].state = "open"
    /\ tx[1].sessions = { SessionRow(sessionId[d], body[d]) }

\* C20: under weak fairness of every call's steps, a call whose request has
\* arrived is eventually done with a response sent and no connection held,
\* having released what it acquired; a response once sent is never replaced
\* by another, and a call that has answered holds no connection.
C20_EveryCallCompletes ==
  /\ \A c \in Calls :
       (pc[c] # "idle") ~>
         (pc[c] = "done" /\ resp[c].status # 0 /\ client[c] = 0
            /\ nRelease[c] = nConnect[c])
  /\ [][ \A c \in Calls :
            /\ resp[c].status # 0 => resp'[c] = resp[c]
            /\ pc'[c] = "done" => client'[c] = 0 ]_vars

\* C20 witness: with a pool of one connection, every call has been answered,
\* each after holding and releasing that connection, one of them on the error
\* path; the later one had to wait for the earlier to release.
C20_Witness ==
  /\ poolMax = 1
  /\ \A c \in Calls :
       /\ pc[c] = "done" /\ resp[c].status \in {200, 500}
       /\ nConnect[c] = 1 /\ nRelease[c] = 1 /\ client[c] = 0
  /\ \E c \in Calls : resp[c].status = 500 /\ sessionId[c] # 0
  /\ IdleConns = PoolConns

====
